---- MODULE Spec2Model ----
(***************************************************************************)
(* ChaosSec orchestrator: the run loop, the eight-stage iteration          *)
(* sequencer, the safety gate of the S3 misconfiguration handler and the   *)
(* outcome validator, as implemented in src/src/chaossec.                  *)
(*                                                                         *)
(* Python dictionaries are functions whose domain is the set of keys that  *)
(* are present.  Timestamps are readings of a clock that advances when    *)
(* the run loop sleeps; generated identifiers are abstracted to a fixed    *)
(* string.  Fault-type strings are sequences of characters so that lower() *)
(* and the `in` substring test of the inject stage are computed.           *)
(* Besides the run of an orchestrator, single methods (the validator, the  *)
(* response parser, the history analysis, the FIS polling) are called      *)
(* directly in specifications of their own.                                *)
(***************************************************************************)
EXTENDS Integers, Sequences, FiniteSets, TLC

\* ------------------------------------------------------------------ bounds
MaxIterations == 2
MaxCompliance == 1
MaxFindings == 1
\* exceptions the environment (collaborators, file system) raises in one run
MaxFaults == 1
\* direct calls of one method made on an orchestrator
MaxCalls == 2
\* readings the clock can advance by between direct calls
MaxTicks == 2
\* length of the lists analyze_history is called with directly
MaxHistory == 4

\* orchestrator.py 286 and 454: the window [-5:] of the history
HistoryWindow == 5

\* ------------------------------------------------------- python primitives
EmptyDict == [k \in {} |-> TRUE]

\* dict.get(key, default)
Get(d, k, default) == IF k \in DOMAIN d THEN d[k] ELSE default

\* d[key] = value
Put(d, k, v) == [x \in (DOMAIN d) \cup {k} |-> IF x = k THEN v ELSE d[x]]

\* JSON values of the chaos_type field: a string (characters) or null
Str(chars) == [t |-> "str", v |-> chars]
Null == [t |-> "null"]

UpperCase == <<"A","B","C","D","E","F","G","H","I","J","K","L","M",
               "N","O","P","Q","R","S","T","U","V","W","X","Y","Z">>
LowerCase == <<"a","b","c","d","e","f","g","h","i","j","k","l","m",
               "n","o","p","q","r","s","t","u","v","w","x","y","z">>

\* str.lower()
Lower(s) ==
    [i \in 1..Len(s) |->
        IF \E j \in 1..26 : UpperCase[j] = s[i]
        THEN LowerCase[CHOOSE j \in 1..26 : UpperCase[j] = s[i]]
        ELSE s[i]]

\* sub in s
Contains(sub, s) ==
    \E i \in 0..(Len(s) - Len(sub)) : SubSeq(s, i + 1, i + Len(sub)) = sub

make_s3_public == <<"m","a","k","e","_","s","3","_","p","u","b","l","i","c">>
PublicReadACL == <<"P","u","b","l","i","c","R","e","a","d">>
stop_ec2 == <<"s","t","o","p","_","e","c","2">>
NotSpecified == <<"N","o","t"," ","s","p","e","c","i","f","i","e","d">>

\* ------------------------------------------------------------------- state
VARIABLES
    safety_mode,          \* self.config.safety_mode
    env_safety_mode,      \* CHAOSSEC_SAFETY_MODE when load_config built the config
    clock,                \* reading of the system clock
    direct_calls,         \* direct calls of single methods, with their results
    test_history,         \* the list analyze_history is called with directly
    last_context,         \* context the reason stage built last
    misconfig_calls,      \* calls of simulate_s3_bucket_misconfiguration
    execution_history,    \* self.execution_history
    history_file,         \* chaossec_history.json in the working directory
    buckets,              \* S3: bucket name -> public access block and ACL
    s3_calls,             \* mutating S3 API calls issued so far, in order
    evidence_items,       \* evidence items of the last package uploaded
    max_iterations,       \* argument of run_chaossec_loop
    loop_results,         \* local of run_chaossec_loop
    iteration,            \* loop variable of run_chaossec_loop
    sleeps,               \* number of time.sleep(5) calls of the run
    iteration_result,     \* local of _run_single_iteration
    stage,                \* next stage of the running iteration (1..8)
    stages_run,           \* stages called by the running iteration, in order
    returned_iterations,  \* results returned by _run_single_iteration so far
    raised,               \* where an exception was raised in the run loop
    faults,               \* exceptions raised by the environment so far
    pc                    \* position of the run

vars == <<safety_mode, env_safety_mode, clock, direct_calls, test_history, last_context, misconfig_calls, execution_history, history_file, buckets, s3_calls,
          evidence_items, max_iterations, loop_results, iteration, sleeps,
          iteration_result, stage, stages_run, returned_iterations, raised,
          faults, pc>>

\* datetime.utcnow().isoformat(), time.time(): the reading of the clock
Timestamp == clock

\* keys of iteration_result["steps"], in the order the stages run
StageKeys == <<"simulate", "scan", "reason", "chaos", "monitor", "validate", "report", "learn">>

BucketNames == {"s3-test-bucket", "s3-chaossec-test-bucket", "s3-bucket-default",
                "Not specified", "chaossec-test-bucket"}

PrivateBucket == [public_access_block |-> TRUE, acl |-> "private"]

\* values the caller passes as max_iterations (the lambda handler passes
\* event.get('iterations', 1), which need not be an integer)
\* the length of the one longer run explored: its last reason stage sees
\* more history entries than the window holds
LongRun == MaxIterations + HistoryWindow

MaxIterationsInputs ==
    [int : {TRUE}, n : ((-1)..MaxIterations) \cup {LongRun}]
    \cup {[int |-> FALSE, n |-> 0]}

\* in the longer run the collaborators always answer the same: no findings,
\* no decision-maker, no compliance records, S3 calls that work
Quiet == max_iterations.n > MaxIterations

Init ==
    /\ safety_mode \in BOOLEAN
    /\ env_safety_mode = Null
    /\ clock = 0
    /\ direct_calls = <<>>
    /\ test_history = <<>>
    /\ last_context = EmptyDict
    /\ misconfig_calls = <<>>
    /\ execution_history = <<>>
    /\ history_file = [exists |-> FALSE, content |-> <<>>]
    /\ buckets = [b \in BucketNames |-> PrivateBucket]
    /\ s3_calls = <<>>
    /\ evidence_items = <<>>
    /\ max_iterations = [int |-> TRUE, n |-> 0]
    /\ loop_results = EmptyDict
    /\ iteration = 0
    /\ sleeps = 0
    /\ iteration_result = EmptyDict
    /\ stage = 0
    /\ stages_run = <<>>
    /\ returned_iterations = <<>>
    /\ raised = "none"
    /\ faults = 0
    /\ pc = "not_started"

\* an entry as the learn stage of an earlier orchestrator writes it
EarlierEntry ==
    [iteration_id |-> "iter-time",
     timestamp |-> 0,
     target |-> "s3-chaossec-test-bucket",
     chaos_type |-> Str(make_s3_public),
     outcome |-> "success_simulated",
     test_passed |-> TRUE,
     findings_count |-> 0]

\* orchestrator.py 78-80: a second orchestrator constructed in the working
\* directory of an earlier one, whose learn stage left the history file
InitEarlierRun ==
    /\ safety_mode \in BOOLEAN
    /\ env_safety_mode = Null
    /\ clock = 1
    /\ direct_calls = <<>>
    /\ test_history = <<>>
    /\ last_context = EmptyDict
    /\ misconfig_calls = <<>>
    /\ execution_history = <<>>
    /\ history_file = [exists |-> TRUE, content |-> <<EarlierEntry>>]
    /\ buckets = [b \in BucketNames |-> PrivateBucket]
    /\ s3_calls = <<>>
    /\ evidence_items = <<>>
    /\ max_iterations = [int |-> TRUE, n |-> 0]
    /\ loop_results = EmptyDict
    /\ iteration = 0
    /\ sleeps = 0
    /\ iteration_result = EmptyDict
    /\ stage = 0
    /\ stages_run = <<>>
    /\ returned_iterations = <<>>
    /\ raised = "none"
    /\ faults = 0
    /\ pc = "not_started"

\* values of CHAOSSEC_SAFETY_MODE: unset (None), or a string
EnvValues ==
    {Null,
     Str(<<"t","r","u","e">>),
     Str(<<"T","R","U","E">>),
     Str(<<"T","r","u","e">>),
     Str(<<"f","a","l","s","e">>),
     Str(<<"1">>),
     Str(<<"y","e","s">>),
     Str(<<"o","n">>),
     Str(<<" ","t","r","u","e"," ">>),
     Str(<<>>)}

\* the usual truthy spellings are accepted as well
LoadConfigSafetyMode_Truthy(value) ==
    Lower(IF value = Null THEN <<"t","r","u","e">> ELSE value.v)
        \in {<<"t","r","u","e">>, <<"1">>, <<"y","e","s">>, <<"o","n">>}

\* config.py 150: os.getenv('CHAOSSEC_SAFETY_MODE', 'true').lower() == 'true'
LoadConfigSafetyMode(value) ==
    Lower(IF value = Null THEN <<"t","r","u","e">> ELSE value.v) = <<"t","r","u","e">>

\* config.py 85-159, orchestrator.py 24-90: an orchestrator constructed with
\* the configuration load_config returns
InitLoadConfig ==
    /\ env_safety_mode \in EnvValues
    /\ safety_mode = LoadConfigSafetyMode(env_safety_mode)
    /\ clock = 0
    /\ direct_calls = <<>>
    /\ test_history = <<>>
    /\ last_context = EmptyDict
    /\ misconfig_calls = <<>>
    /\ execution_history = <<>>
    /\ history_file = [exists |-> FALSE, content |-> <<>>]
    /\ buckets = [b \in BucketNames |-> PrivateBucket]
    /\ s3_calls = <<>>
    /\ evidence_items = <<>>
    /\ max_iterations = [int |-> TRUE, n |-> 0]
    /\ loop_results = EmptyDict
    /\ iteration = 0
    /\ sleeps = 0
    /\ iteration_result = EmptyDict
    /\ stage = 0
    /\ stages_run = <<>>
    /\ returned_iterations = <<>>
    /\ raised = "none"
    /\ faults = 0
    /\ pc = "not_started"

\* the environment raises an exception, within the bound of the run
Fault == faults < MaxFaults /\ faults' = faults + 1

NoFault == faults' = faults

\* ---------------------------------------------------------------- run loop

\* orchestrator.py 106-115: the call, up to the try
RunChaosSecLoop ==
    /\ pc = "not_started"
    /\ \E n \in MaxIterationsInputs : max_iterations' = n
    /\ loop_results' = [started_at |-> Timestamp,
                        correlation_id |-> "correlation-id",
                        iterations |-> <<>>,
                        safety_mode |-> safety_mode]
    /\ iteration' = 0
    /\ pc' = "loop"
    /\ NoFault
    /\ UNCHANGED <<safety_mode, env_safety_mode, test_history, clock, direct_calls, last_context, misconfig_calls, execution_history, history_file, buckets, s3_calls,
                   evidence_items, sleeps, iteration_result, stage, stages_run,
                   returned_iterations, raised>>

\* the handler logs the error and leaves the status as it is
LoopExcept_NoStatus(results, e) == Put(results, "error", e)

\* the handler starts the summary's iteration list afresh
LoopExcept_DropsIterations(results, e) ==
    Put(Put(Put(results, "status", "error"), "error", e), "iterations", <<>>)

\* orchestrator.py 139-143: except Exception of run_chaossec_loop
LoopExcept(results, e) == Put(Put(results, "status", "error"), "error", e)

\* orchestrator.py 116: range(max_iterations) raises TypeError for a non-integer
RangeRaises ==
    /\ pc = "loop"
    /\ ~max_iterations.int
    /\ loop_results' = LoopExcept(loop_results, "TypeError")
    /\ raised' = "range"
    /\ pc' = "returned"
    /\ NoFault
    /\ UNCHANGED <<safety_mode, env_safety_mode, test_history, clock, direct_calls, last_context, misconfig_calls, execution_history, history_file, buckets, s3_calls,
                   evidence_items, max_iterations, iteration, sleeps, iteration_result,
                   stage, stages_run, returned_iterations>>

\* orchestrator.py 116-119, 154-160: next iteration, _run_single_iteration entered
BeginIteration ==
    /\ pc = "loop"
    /\ max_iterations.int
    /\ iteration < max_iterations.n
    /\ iteration_result' = [iteration_id |-> "iter-time",
                            started_at |-> Timestamp,
                            steps |-> EmptyDict]
    /\ stage' = 1
    /\ stages_run' = <<>>
    /\ pc' = "stage"
    /\ NoFault
    /\ UNCHANGED <<safety_mode, env_safety_mode, test_history, clock, direct_calls, last_context, misconfig_calls, execution_history, history_file, buckets, s3_calls,
                   evidence_items, max_iterations, loop_results, iteration, sleeps,
                   returned_iterations, raised>>

\* orchestrator.py 119, 154-158: _run_single_iteration raises before its try
\* (the statements outside the try are not covered by its handler)
SequencerRaises ==
    /\ pc = "loop"
    /\ max_iterations.int
    /\ iteration < max_iterations.n
    /\ loop_results' = LoopExcept(loop_results, "sequencer")
    /\ raised' = "sequencer"
    /\ pc' = "returned"
    /\ Fault
    /\ UNCHANGED <<safety_mode, env_safety_mode, test_history, clock, direct_calls, last_context, misconfig_calls, execution_history, history_file, buckets, s3_calls,
                   evidence_items, max_iterations, iteration, sleeps, iteration_result,
                   stage, stages_run, returned_iterations>>

\* the loop sleeps after every iteration, the last one included
LoopAppend_SleepsAfterLast ==
    /\ pc = "iteration_returned"
    /\ loop_results' = [loop_results EXCEPT
                          !["iterations"] = Append(@, iteration_result)]
    /\ sleeps' = sleeps + 1
    /\ clock' = clock + 1
    /\ iteration' = iteration + 1
    /\ pc' = "loop"
    /\ NoFault
    /\ UNCHANGED <<safety_mode, env_safety_mode, test_history, direct_calls, last_context, misconfig_calls, execution_history, history_file, buckets, s3_calls,
                   evidence_items, max_iterations, iteration_result, stage, stages_run,
                   returned_iterations, raised>>

\* orchestrator.py 120-125: append the result, sleep unless last, next index
LoopAppend ==
    /\ pc = "iteration_returned"
    /\ loop_results' = [loop_results EXCEPT
                          !["iterations"] = Append(@, iteration_result)]
    /\ sleeps' = IF iteration < max_iterations.n - 1 THEN sleeps + 1 ELSE sleeps
    /\ clock' = IF iteration < max_iterations.n - 1 THEN clock + 1 ELSE clock
    /\ iteration' = iteration + 1
    /\ pc' = "loop"
    /\ NoFault
    /\ UNCHANGED <<safety_mode, env_safety_mode, test_history, direct_calls, last_context, misconfig_calls, execution_history, history_file, buckets, s3_calls,
                   evidence_items, max_iterations, iteration_result, stage, stages_run,
                   returned_iterations, raised>>

\* the loop is also left after an iteration that ended with status 'error'
LoopCompleted_StopsAfterError ==
    /\ pc = "loop"
    /\ max_iterations.int
    /\ \/ ~(iteration < max_iterations.n)
       \/ /\ Len(loop_results["iterations"]) > 0
          /\ loop_results["iterations"][Len(loop_results["iterations"])]["status"] = "error"
    /\ loop_results' =
         Put(Put(Put(loop_results, "completed_at", Timestamp),
                 "status", "completed"),
             "total_iterations", Len(loop_results["iterations"]))
    /\ pc' = "summary"
    /\ NoFault
    /\ UNCHANGED <<safety_mode, env_safety_mode, test_history, clock, direct_calls, last_context, misconfig_calls, execution_history, history_file, buckets, s3_calls,
                   evidence_items, max_iterations, iteration, sleeps, iteration_result,
                   stage, stages_run, returned_iterations, raised>>

\* orchestrator.py 127-129: the loop is exhausted
LoopCompleted ==
    /\ pc = "loop"
    /\ max_iterations.int
    /\ ~(iteration < max_iterations.n)
    /\ loop_results' =
         Put(Put(Put(loop_results, "completed_at", Timestamp),
                 "status", "completed"),
             "total_iterations", Len(loop_results["iterations"]))
    /\ pc' = "summary"
    /\ NoFault
    /\ UNCHANGED <<safety_mode, env_safety_mode, test_history, clock, direct_calls, last_context, misconfig_calls, execution_history, history_file, buckets, s3_calls,
                   evidence_items, max_iterations, iteration, sleeps, iteration_result,
                   stage, stages_run, returned_iterations, raised>>

\* orchestrator.py 132-137, agent_brain.py 352-375: the summary is generated
\* by the decision-maker or, when that call fails, by the fallback text
GenerateReportSummary ==
    /\ pc = "summary"
    /\ \E s \in {"ai summary", "Chaos Test Summary"} :
         loop_results' = Put(loop_results, "summary", s)
    /\ pc' = "returned"
    /\ NoFault
    /\ UNCHANGED <<safety_mode, env_safety_mode, test_history, clock, direct_calls, last_context, misconfig_calls, execution_history, history_file, buckets, s3_calls,
                   evidence_items, max_iterations, iteration, sleeps, iteration_result,
                   stage, stages_run, returned_iterations, raised>>

\* agent_brain.py 339-350: the prompt, with json.dumps(results), is built
\* outside the try of generate_report_summary; orchestrator.py 139-143
GenerateReportSummaryRaises ==
    /\ pc = "summary"
    /\ loop_results' = LoopExcept(loop_results, "summary")
    /\ raised' = "summary"
    /\ pc' = "returned"
    /\ Fault
    /\ UNCHANGED <<safety_mode, env_safety_mode, test_history, clock, direct_calls, last_context, misconfig_calls, execution_history, history_file, buckets, s3_calls,
                   evidence_items, max_iterations, iteration, sleeps, iteration_result,
                   stage, stages_run, returned_iterations>>

\* ------------------------------------------------------ iteration sequencer

\* the stage result is not attached to the steps map
RecordStep_NotAttached(result, key, value) == result

\* orchestrator.py 164, 169, ...: iteration_result["steps"][key] = value
RecordStep(result, key, value) == [result EXCEPT !["steps"] = Put(@, key, value)]

\* the handler discards the partial results
IterationExcept_ClearsSteps(result, e) ==
    Put(Put(Put(Put(result, "status", "error"), "error", e), "completed_at", Timestamp),
        "steps", EmptyDict)

\* orchestrator.py 211-216: except Exception of _run_single_iteration
IterationExcept(result, e) ==
    Put(Put(Put(result, "status", "error"), "error", e), "completed_at", Timestamp)

\* a stage returned: its result is recorded and the next stage is due
StageReturns(key, value) ==
    /\ stages_run' = Append(stages_run, key)
    /\ iteration_result' = RecordStep(iteration_result, key, value)
    /\ stage' = stage + 1
    /\ pc' = "stage"
    /\ UNCHANGED returned_iterations

\* a stage raised: the handler fills the result and the iteration returns
StageRaises(key, e) ==
    /\ stages_run' = Append(stages_run, key)
    /\ iteration_result' = IterationExcept(iteration_result, e)
    /\ stage' = stage
    /\ pc' = "iteration_returned"
    /\ returned_iterations' = Append(returned_iterations, iteration_result')

\* orchestrator.py 218-249, system_initiative.py 89-138
StepSimulate ==
    /\ pc = "stage" /\ stage = 1
    /\ \/ NoFault /\ StageReturns("simulate",
            [twin_id |-> "twin-1", status |-> "created",
             resource_count |-> 2, workspace_id |-> "ws"])
       \/ Fault /\ StageRaises("simulate", "simulate failed")
    /\ UNCHANGED <<safety_mode, env_safety_mode, test_history, clock, direct_calls, last_context, misconfig_calls, execution_history, history_file, buckets, s3_calls,
                   evidence_items, max_iterations, loop_results, iteration, sleeps, raised>>

\* findings the scanner can return
Findings == [severity : {"ERROR"}]

\* orchestrator.py 251-275
StepScanResult(findings) ==
    [self_scan |-> "scan", iac_scan |-> "scan",
     combined_findings |-> findings,
     total_findings |-> Len(findings)]

StepScan ==
    /\ pc = "stage" /\ stage = 2
    /\ \/ \E n \in 0..(IF Quiet THEN 0 ELSE MaxFindings) :
          \E findings \in [1..n -> Findings] :
            NoFault /\ StageReturns("scan", StepScanResult(findings))
       \/ Fault /\ StageRaises("scan", "scan failed")
    /\ UNCHANGED <<safety_mode, env_safety_mode, test_history, clock, direct_calls, last_context, misconfig_calls, execution_history, history_file, buckets, s3_calls,
                   evidence_items, max_iterations, loop_results, iteration, sleeps, raised>>

\* ----------------------------------------------------------------- reason

RequiredFields == <<"target_resource", "chaos_type", "expected_outcome",
                    "validation_criteria", "compliance_control">>

\* the literal "Not specified", in the representation of the field
NotSpecifiedFor(field) == IF field = "chaos_type" THEN Str(NotSpecified) ELSE "Not specified"

\* an object as the decision-maker is asked to return it
FullObject(chaos_type) ==
    [target_resource |-> "s3-test-bucket",
     chaos_type |-> chaos_type,
     expected_outcome |-> "controls detect",
     validation_criteria |-> "config detects",
     compliance_control |-> "SOC2:CC6.6",
     reasoning |-> "chosen"]

\* --------------------------------------------------- decision-maker texts
\* A text is a sequence of lines and a line a sequence of tokens: the JSON
\* punctuation, string literals (carrying the Python value they denote),
\* numbers, null, the markdown fence and bare words.

Punct(c) == [tok |-> c]
StringLit(v) == [tok |-> "string", v |-> v]
NumberLit(n) == [tok |-> "number", v |-> n]
Word(w) == [tok |-> "word", v |-> w]
Fence == [tok |-> "fence"]

\* Python values other than str: dict, list, int (None is Null)
PyDict(d) == [t |-> "dict", v |-> d]
PyList(l) == [t |-> "list", v |-> l]
PyInt(n) == [t |-> "int", v |-> n]

RECURSIVE Flatten(_)
Flatten(seqs) ==
    IF seqs = <<>> THEN <<>> ELSE seqs[1] \o Flatten(SubSeq(seqs, 2, Len(seqs)))

\* the tokens of an object with the given members (pairs of key and value token)
ObjectTokens(members) ==
    <<Punct("{")>>
    \o Flatten([i \in 1..Len(members) |->
                   (IF i > 1 THEN <<Punct(",")>> ELSE <<>>)
                   \o <<StringLit(members[i][1]), Punct(":"), members[i][2]>>])
    \o <<Punct("}")>>

\* the members of FullObject(chaos_type), the fault type given as a token
FullMembers(chaos_type_token) ==
    << <<"target_resource", StringLit("s3-test-bucket")>>,
       <<"chaos_type", chaos_type_token>>,
       <<"expected_outcome", StringLit("controls detect")>>,
       <<"validation_criteria", StringLit("config detects")>>,
       <<"compliance_control", StringLit("SOC2:CC6.6")>>,
       <<"reasoning", StringLit("chosen")>> >>

FullObjectText(chaos_type_token) == <<ObjectTokens(FullMembers(chaos_type_token))>>

\* [...] of string literals
ArrayText(strings) ==
    << <<Punct("[")>>
       \o Flatten([i \in 1..Len(strings) |->
                      (IF i > 1 THEN <<Punct(",")>> ELSE <<>>)
                      \o <<StringLit(strings[i])>>])
       \o <<Punct("]")>> >>

\* Scenario D
NotJsonAtAll == << <<Word("not"), Word("json"), Word("at"), Word("all")>> >>

\* ------------------------------------------------------------- json.loads

TokAt(toks, i) == IF i <= Len(toks) THEN toks[i].tok ELSE "eof"

Parsed(value, pos) == [ok |-> TRUE, value |-> value, pos |-> pos]

\* json.JSONDecodeError(msg, doc, pos)
DecodeError(msg, pos) == [ok |-> FALSE, msg |-> msg, pos |-> pos]

RECURSIVE ParseValue(_, _), ParseMembers(_, _, _), ParseElements(_, _, _)

\* json.decoder: one value starting at token i
ParseValue(toks, i) ==
    CASE TokAt(toks, i) = "string" -> Parsed(toks[i].v, i + 1)
      [] TokAt(toks, i) = "number" -> Parsed(PyInt(toks[i].v), i + 1)
      [] TokAt(toks, i) = "null" -> Parsed(Null, i + 1)
      [] TokAt(toks, i) = "{" ->
            IF TokAt(toks, i + 1) = "}" THEN Parsed(PyDict(EmptyDict), i + 2)
            ELSE ParseMembers(toks, i + 1, EmptyDict)
      [] TokAt(toks, i) = "[" ->
            IF TokAt(toks, i + 1) = "]" THEN Parsed(PyList(<<>>), i + 2)
            ELSE ParseElements(toks, i + 1, <<>>)
      [] OTHER -> DecodeError("Expecting value", i)

\* the members of an object from token i on; a repeated key keeps the last value
ParseMembers(toks, i, d) ==
    IF TokAt(toks, i) # "string"
    THEN DecodeError("Expecting property name enclosed in double quotes", i)
    ELSE IF TokAt(toks, i + 1) # ":"
    THEN DecodeError("Expecting ':' delimiter", i + 1)
    ELSE LET r == ParseValue(toks, i + 2)
         IN  IF ~r.ok THEN r
             ELSE IF TokAt(toks, r.pos) = ","
             THEN ParseMembers(toks, r.pos + 1, Put(d, toks[i].v, r.value))
             ELSE IF TokAt(toks, r.pos) = "}"
             THEN Parsed(PyDict(Put(d, toks[i].v, r.value)), r.pos + 1)
             ELSE DecodeError("Expecting ',' delimiter", r.pos)

\* the elements of an array from token i on
ParseElements(toks, i, l) ==
    LET r == ParseValue(toks, i)
    IN  IF ~r.ok THEN r
        ELSE IF TokAt(toks, r.pos) = ","
        THEN ParseElements(toks, r.pos + 1, Append(l, r.value))
        ELSE IF TokAt(toks, r.pos) = "]"
        THEN Parsed(PyList(Append(l, r.value)), r.pos + 1)
        ELSE DecodeError("Expecting ',' delimiter", r.pos)

\* json.loads(text): one value and nothing after it
JsonLoads(text) ==
    LET toks == Flatten(text)
        r == ParseValue(toks, 1)
    IN  IF r.ok /\ r.pos <= Len(toks) THEN DecodeError("Extra data", r.pos) ELSE r

\* str(e) of a JSONDecodeError: the message and the position, never the text
DecodeErrorStr(e) == Str(<< <<Word(e.msg), Word("char"), NumberLit(e.pos)>> >>)

\* what the decision-maker call yields: a failure of the call or a text
\* (here: an array, and objects with a fault type of either kind or null)
BedrockOutcomes ==
    {[kind |-> "call_failed"]}
    \cup [kind : {"text"},
          text : {ArrayText(<<>>),
                  FullObjectText(StringLit(Str(PublicReadACL))),
                  FullObjectText(StringLit(Str(stop_ec2))),
                  FullObjectText(Punct("null"))}]

\* agent_brain.py 272-281: missing required fields are filled in
FillRequired(obj) ==
    [f \in (DOMAIN obj) \cup {RequiredFields[i] : i \in 1..Len(RequiredFields)} |->
        IF f \in DOMAIN obj THEN obj[f] ELSE NotSpecifiedFor(f)]

\* response.strip(): blank lines at both ends are dropped
RECURSIVE Strip(_)
Strip(text) ==
    IF text # <<>> /\ text[1] = <<>> THEN Strip(SubSeq(text, 2, Len(text)))
    ELSE IF text # <<>> /\ text[Len(text)] = <<>>
    THEN Strip(SubSeq(text, 1, Len(text) - 1))
    ELSE text

\* agent_brain.py 283-296: the except branch of _parse_bedrock_response
ParseErrorFallback(e, response) ==
    [target_resource |-> "s3-bucket-default",
     chaos_type |-> Str(make_s3_public),
     expected_outcome |-> "Detection by security controls",
     validation_criteria |-> "Config compliance check fails",
     compliance_control |-> "SOC2:CC6.6",
     reasoning |-> "Fallback due to parse error",
     error |-> DecodeErrorStr(e)]

\* `field not in recommendation` is false for every required field of a list
ListHasAllFields(l) ==
    \A i \in 1..Len(RequiredFields) : \E j \in 1..Len(l) : l[j] = RequiredFields[i]

Returns(value) == [raises |-> FALSE, value |-> value]

Raises(e) == [raises |-> TRUE, error |-> e]

\* the fence lines are left in the text
ExtractJson_KeepsFence(response) == Strip(response)

\* agent_brain.py 263-268: the text handed to json.loads; lines[1:-1] of a
\* text that starts with the fence and has more than two lines
ExtractJson(response) ==
    LET stripped == Strip(response)
        fenced == TokAt(IF stripped = <<>> THEN <<>> ELSE stripped[1], 1) = "fence"
    IN  IF fenced /\ Len(stripped) > 2
        THEN SubSeq(stripped, 2, Len(stripped) - 1)
        ELSE stripped

\* agent_brain.py 253-296: the value returned, or the exception raised when
\* the field loop meets a JSON value that is not an object (a list that holds
\* all five field names passes the loop and is returned as it is)
ParseBedrockResponse(response) ==
    LET body == ExtractJson(response)
        r == JsonLoads(body)
    IN  IF ~r.ok THEN Returns(PyDict(ParseErrorFallback(r, response)))
        ELSE IF r.value.t = "dict" THEN Returns(PyDict(FillRequired(r.value.v)))
        ELSE IF r.value.t = "list" /\ ListHasAllFields(r.value.v) THEN Returns(r.value)
        ELSE Raises("TypeError")

\* the fallback carries the error of the failed call
FallbackRecommendation_WithError(context) ==
    [target_resource |-> "s3-chaossec-test-bucket",
     chaos_type |-> Str(make_s3_public),
     expected_outcome |-> "AWS Config should detect non-compliance, security alerts should fire",
     validation_criteria |-> "Config rule violation detected, CloudWatch alarm triggered",
     compliance_control |-> "SOC2:CC6.6 - Logical Access Controls",
     reasoning |-> "Starting with fundamental S3 security test (fallback logic)",
     error |-> "Failed to call Bedrock"]

\* agent_brain.py 298-318: the context is not looked at
FallbackRecommendation(context) ==
    [target_resource |-> "s3-chaossec-test-bucket",
     chaos_type |-> Str(make_s3_public),
     expected_outcome |-> "AWS Config should detect non-compliance, security alerts should fire",
     validation_criteria |-> "Config rule violation detected, CloudWatch alarm triggered",
     compliance_control |-> "SOC2:CC6.6 - Logical Access Controls",
     reasoning |-> "Starting with fundamental S3 security test (fallback logic)",
     fallback |-> TRUE]

\* agent_brain.py 93-133: a failed call, an exception of the parser and the
\* AttributeError of recommendation.get on a list all end in the except
\* branch; the prompt is built from the context with dict.get only
ReasonNextChaos(context, outcome) ==
    IF outcome.kind = "call_failed" THEN FallbackRecommendation(context)
    ELSE LET parsed == ParseBedrockResponse(outcome.text)
         IN  IF parsed.raises THEN FallbackRecommendation(context)
             ELSE IF parsed.value.t # "dict" THEN FallbackRecommendation(context)
             ELSE parsed.value.v

\* s[-n:]
LastN(s, n) == SubSeq(s, IF Len(s) > n THEN Len(s) - n + 1 ELSE 1, Len(s))

\* s[:n]
FirstN(s, n) == SubSeq(s, 1, IF Len(s) > n THEN n ELSE Len(s))

\* an entry counts as a success when its test passed
CountOutcome_ByTestPassed(past_results, outcome) ==
    Cardinality({i \in 1..Len(past_results) :
                    IF outcome = "success"
                    THEN Get(past_results[i], "test_passed", FALSE) = TRUE
                    ELSE Get(past_results[i], "outcome", "None") = outcome})

\* the simulated successes are counted as successes
CountOutcome_CountsSimulated(past_results, outcome) ==
    Cardinality({i \in 1..Len(past_results) :
                    \/ Get(past_results[i], "outcome", "None") = outcome
                    \/ /\ outcome = "success"
                       /\ Get(past_results[i], "outcome", "None") = "success_simulated"})

\* sum(1 for r in past_results if r.get('outcome') == outcome)
CountOutcome(past_results, outcome) ==
    Cardinality({i \in 1..Len(past_results) :
                    Get(past_results[i], "outcome", "None") = outcome})

\* agent_brain.py 69-73: the failure types, in the order they are first met
RECURSIVE FailureTypes(_)
FailureTypes(past_results) ==
    IF past_results = <<>> THEN <<>>
    ELSE LET front == FailureTypes(SubSeq(past_results, 1, Len(past_results) - 1))
             r == past_results[Len(past_results)]
             failure_type == Get(r, "failure_type", "unknown")
         IN  IF Get(r, "outcome", "None") = "failure"
                /\ ~\E i \in 1..Len(front) : front[i] = failure_type
             THEN Append(front, failure_type)
             ELSE front

\* failure_types[failure_type]
FailureCount(past_results, failure_type) ==
    Cardinality({i \in 1..Len(past_results) :
                    /\ Get(past_results[i], "outcome", "None") = "failure"
                    /\ Get(past_results[i], "failure_type", "unknown") = failure_type})

\* the failure types are left in the order they were first met
SortByCount_Unsorted(types, past_results) == types

\* agent_brain.py 75-79: sorted(..., key=count, reverse=True), a stable sort
RECURSIVE SortByCount(_, _)
SortByCount(types, past_results) ==
    IF types = <<>> THEN <<>>
    ELSE LET best == CHOOSE i \in 1..Len(types) :
                        \A j \in 1..Len(types) :
                            \/ FailureCount(past_results, types[i])
                                  > FailureCount(past_results, types[j])
                            \/ /\ FailureCount(past_results, types[i])
                                    = FailureCount(past_results, types[j])
                               /\ i <= j
             rest == [k \in 1..(Len(types) - 1) |->
                        IF k < best THEN types[k] ELSE types[k + 1]]
         IN  <<types[best]>> \o SortByCount(rest, past_results)

\* agent_brain.py 41-91; the success rate is the fraction successful / total
AnalyzeHistory(past_results) ==
    IF past_results = <<>>
    THEN [total_tests |-> 0,
          success_rate |-> <<0, 1>>,
          common_failures |-> <<>>,
          recommendations |-> <<"No historical data available - start with basic S3 tests">>]
    ELSE LET common == FirstN(SortByCount(FailureTypes(past_results), past_results), 3)
         IN  [total_tests |-> Len(past_results),
              successful_tests |-> CountOutcome(past_results, "success"),
              failed_tests |-> CountOutcome(past_results, "failure"),
              success_rate |-> <<CountOutcome(past_results, "success"), Len(past_results)>>,
              common_failures |->
                 [i \in 1..Len(common) |->
                     [type |-> common[i],
                      count |-> FailureCount(past_results, common[i])]],
              most_recent |-> past_results[Len(past_results)]]

\* the whole history is handed over as previous_tests
ReasonContext_WholeHistory(history, scan_result) ==
    [history_analysis |-> AnalyzeHistory(history),
     semgrep_findings |-> Get(scan_result, "combined_findings", <<>>),
     previous_tests |-> history]

\* orchestrator.py 279-287: the context handed to the decision-maker
ReasonContext(history, scan_result) ==
    [history_analysis |-> AnalyzeHistory(history),
     semgrep_findings |-> Get(scan_result, "combined_findings", <<>>),
     previous_tests |-> LastN(history, HistoryWindow)]

\* orchestrator.py 277-292
StepReason ==
    /\ pc = "stage" /\ stage = 3
    /\ \/ \E outcome \in (IF Quiet THEN {[kind |-> "call_failed"]} ELSE BedrockOutcomes) :
            /\ NoFault
            /\ last_context' = ReasonContext(execution_history, iteration_result["steps"]["scan"])
            /\ StageReturns("reason", ReasonNextChaos(last_context', outcome))
       \/ Fault /\ StageRaises("reason", "reason failed") /\ UNCHANGED last_context
    /\ UNCHANGED <<safety_mode, env_safety_mode, test_history, clock, direct_calls, misconfig_calls, execution_history, history_file, buckets, s3_calls,
                   evidence_items, max_iterations, loop_results, iteration, sleeps, raised>>

\* ----------------------------------------------------------------- inject

\* how the S3 API behaves during one call of the handler: every call works,
\* or the first or the second call fails, with a ClientError or with another
\* exception (a botocore parameter-validation or connection error)
S3Behaviours == {"ok", "client_error_first", "client_error_second",
                 "error_first", "error_second"}

\* the simulated change is reported as applied
S3Simulated_ReportsApplied(bucket_name, make_public, bk, calls) ==
    [raises |-> FALSE,
     result |-> [bucket |-> bucket_name,
                 action |-> IF make_public THEN "make_public" ELSE "fix_public",
                 applied |-> TRUE,
                 safety_mode |-> TRUE,
                 simulated_outcome |-> "success"],
     buckets |-> bk,
     s3_calls |-> calls]

\* aws_handler.py 348-356: safety mode, nothing is called
S3Simulated(bucket_name, make_public, bk, calls) ==
    [raises |-> FALSE,
     result |-> [bucket |-> bucket_name,
                 action |-> IF make_public THEN "make_public" ELSE "fix_public",
                 applied |-> FALSE,
                 safety_mode |-> TRUE,
                 simulated_outcome |-> "success"],
     buckets |-> bk,
     s3_calls |-> calls]

\* aws_handler.py 358-413: the S3 calls are made; a ClientError is turned
\* into a failure result, any other exception leaves the handler
S3Applied(bucket_name, make_public, s3, bk, calls) ==
    LET first == IF make_public THEN "delete_public_access_block"
                                ELSE "put_public_access_block"
        firstFails == s3 \in {"client_error_first", "error_first"}
        secondFails == s3 \in {"client_error_second", "error_second"}
        bk1 == IF firstFails THEN bk
               ELSE [bk EXCEPT ![bucket_name].public_access_block = ~make_public]
        bk2 == IF firstFails \/ secondFails THEN bk1
               ELSE [bk1 EXCEPT ![bucket_name].acl =
                                   IF make_public THEN "public-read" ELSE "private"]
        calls1 == Append(calls, [op |-> first, bucket |-> bucket_name])
        calls2 == IF firstFails THEN calls1
                  ELSE Append(calls1, [op |-> "put_bucket_acl", bucket |-> bucket_name])
    IN  [raises |-> s3 \in {"error_first", "error_second"},
         result |->
            IF s3 = "ok"
            THEN [bucket |-> bucket_name,
                  action |-> IF make_public THEN "made_public" ELSE "fixed_public",
                  applied |-> TRUE,
                  safety_mode |-> FALSE,
                  outcome |-> "success"]
            ELSE [bucket |-> bucket_name,
                  action |-> IF make_public THEN "make_public" ELSE "fix_public",
                  applied |-> FALSE,
                  error |-> "ClientError",
                  outcome |-> "failure"],
         buckets |-> bk2,
         s3_calls |-> calls2]

\* the fix is applied where the fault is asked for
SimulateS3BucketMisconfiguration_Reverts(bucket_name, make_public, safety, s3, bk, calls) ==
    IF safety
    THEN S3Simulated(bucket_name, make_public, bk, calls)
    ELSE S3Applied(bucket_name, ~make_public, s3, bk, calls)

\* the safety_mode argument is not looked at
SimulateS3BucketMisconfiguration_NoSafetyGate(bucket_name, make_public, safety, s3, bk, calls) ==
    S3Applied(bucket_name, make_public, s3, bk, calls)

\* aws_handler.py 326-413: the result returned (or raises), the buckets and
\* the calls after simulate_s3_bucket_misconfiguration
SimulateS3BucketMisconfiguration(bucket_name, make_public, safety, s3, bk, calls) ==
    IF safety
    THEN S3Simulated(bucket_name, make_public, bk, calls)
    ELSE S3Applied(bucket_name, make_public, s3, bk, calls)

\* the markers are looked for in the string as it is, without lower()
IsS3Chaos_CaseSensitive(chaos_type) ==
    \/ Contains(<<"p","u","b","l","i","c">>, chaos_type)
    \/ Contains(<<"s","3">>, chaos_type)

\* orchestrator.py 300: 'public' in chaos_type.lower() or 's3' in chaos_type.lower()
IsS3Chaos(chaos_type) ==
    \/ Contains(<<"p","u","b","l","i","c">>, Lower(chaos_type))
    \/ Contains(<<"s","3">>, Lower(chaos_type))

\* orchestrator.py 311-319
InjectFallbackResult(target) ==
    [chaos_type |-> Str(make_s3_public),
     target |-> target,
     applied |-> FALSE,
     safety_mode |-> safety_mode,
     note |-> "Fallback to S3 test"]

\* orchestrator.py 294-319
StepInjectChaos ==
    /\ pc = "stage" /\ stage = 4
    /\ LET reasoning_result == iteration_result["steps"]["reason"]
           chaos_type == Get(reasoning_result, "chaos_type", Str(make_s3_public))
           target == Get(reasoning_result, "target_resource", "chaossec-test-bucket")
       IN  IF chaos_type.t # "str"
           THEN \* None.lower(): AttributeError
                /\ StageRaises("chaos", "AttributeError")
                /\ NoFault
                /\ UNCHANGED <<buckets, s3_calls, misconfig_calls>>
           ELSE IF IsS3Chaos(chaos_type.v)
           THEN \E s3 \in (IF safety_mode \/ Quiet THEN {"ok"} ELSE S3Behaviours) :
                  LET r == SimulateS3BucketMisconfiguration(
                               target, TRUE, safety_mode, s3, buckets, s3_calls)
                  IN  /\ IF s3 = "ok" THEN NoFault ELSE Fault
                      /\ misconfig_calls' = Append(misconfig_calls,
                             [bucket_name |-> target, make_public |-> TRUE,
                              safety_mode |-> safety_mode])
                      /\ buckets' = r.buckets
                      /\ s3_calls' = r.s3_calls
                      /\ IF r.raises
                         THEN StageRaises("chaos", "s3 error")
                         ELSE StageReturns("chaos",
                                Put(Put(r.result, "chaos_type", chaos_type),
                                    "reasoning", Get(reasoning_result, "reasoning", "")))
           ELSE /\ StageReturns("chaos", InjectFallbackResult(target))
                /\ NoFault
                /\ UNCHANGED <<buckets, s3_calls, misconfig_calls>>
    /\ UNCHANGED <<safety_mode, env_safety_mode, test_history, clock, direct_calls, last_context, execution_history, history_file,
                   evidence_items, max_iterations, loop_results, iteration, sleeps, raised>>

\* ---------------------------------------------------------------- monitor

\* aws_handler.py 92-93: defaults of max_wait_seconds and poll_interval
MaxWaitSeconds == 600
PollInterval == 10

\* states of a FIS experiment at which the polling stops
TerminalStates == {"completed", "stopped", "failed"}

\* the status the k-th get_experiment call returns; once the answers given
\* are used up the experiment stays as it is, running
AnswerAt(answers, k) == IF k <= Len(answers) THEN answers[k] ELSE "running"

\* aws_handler.py 108-148: the loop of monitor_fis_experiment from the poll
\* made `elapsed` seconds after the start on (the calls themselves take no
\* time, each sleep takes poll_interval)
RECURSIVE MonitorFisPoll(_, _, _, _)
MonitorFisPoll(answers, elapsed, max_wait_seconds, poll_interval) ==
    IF ~(elapsed < max_wait_seconds)
    THEN Returns([experiment_id |-> "exp-1", state |-> "timeout",
                  error |-> "Monitoring timeout exceeded"])
    ELSE LET state == AnswerAt(answers, elapsed \div poll_interval + 1)
         IN  IF state = "client_error" THEN Raises("ClientError")
             ELSE IF state \in TerminalStates
             THEN Returns([experiment_id |-> "exp-1", state |-> state])
             ELSE MonitorFisPoll(answers, elapsed + poll_interval,
                                 max_wait_seconds, poll_interval)

\* aws_handler.py 89-148
MonitorFisExperiment(answers) == MonitorFisPoll(answers, 0, MaxWaitSeconds, PollInterval)

ComplianceTypes == {"COMPLIANT", "NON_COMPLIANT"}

\* aws_handler.py 211-265: the compliance records AWS Config can return
ComplianceLists ==
    UNION {[1..n -> [compliance_type : ComplianceTypes]] : n \in 0..MaxCompliance}

\* orchestrator.py 321-349
StepMonitorResult(chaos_result, compliance) ==
    [target |-> IF "bucket" \in DOMAIN chaos_result
                THEN chaos_result["bucket"]
                ELSE Get(chaos_result, "target", "unknown"),
     metrics |-> <<>>,
     compliance |-> compliance,
     events |-> <<>>,
     monitored_at |-> Timestamp]

StepMonitor ==
    /\ pc = "stage" /\ stage = 5
    /\ \/ \E compliance \in (IF Quiet THEN {<<>>} ELSE ComplianceLists) :
            NoFault /\ StageReturns("monitor",
                StepMonitorResult(iteration_result["steps"]["chaos"], compliance))
       \/ Fault /\ StageRaises("monitor", "monitor failed")
    /\ UNCHANGED <<safety_mode, env_safety_mode, test_history, clock, direct_calls, last_context, misconfig_calls, execution_history, history_file, buckets, s3_calls,
                   evidence_items, max_iterations, loop_results, iteration, sleeps, raised>>

\* --------------------------------------------------------------- validate

\* all() in place of any()
NonCompliantDetected_All(compliance_data) ==
    \A i \in 1..Len(compliance_data) :
        Get(compliance_data[i], "compliance_type", "None") = "NON_COMPLIANT"

\* orchestrator.py 363-366
NonCompliantDetected(compliance_data) ==
    \E i \in 1..Len(compliance_data) :
        Get(compliance_data[i], "compliance_type", "None") = "NON_COMPLIANT"

\* the safety-mode branch is missing: the detection policy is always applied
StepValidateResult_NoSafetyBranch(safety, monitoring_result, reasoning_result) ==
    LET compliance_data == Get(monitoring_result, "compliance", <<>>)
        non_compliant_detected == NonCompliantDetected(compliance_data)
    IN  [outcome |-> IF non_compliant_detected THEN "success" ELSE "failure",
         test_passed |-> non_compliant_detected,
         expected_outcome |-> Get(reasoning_result, "expected_outcome", ""),
         validation_criteria |-> Get(reasoning_result, "validation_criteria", ""),
         non_compliant_detected |-> non_compliant_detected,
         compliance_count |-> Len(compliance_data),
         validated_at |-> Timestamp]

\* orchestrator.py 351-384
StepValidateResult(safety, monitoring_result, reasoning_result) ==
    LET compliance_data == Get(monitoring_result, "compliance", <<>>)
        non_compliant_detected == NonCompliantDetected(compliance_data)
        test_passed == IF safety THEN TRUE ELSE non_compliant_detected
        outcome == IF safety THEN "success_simulated"
                   ELSE IF test_passed THEN "success" ELSE "failure"
    IN  [outcome |-> outcome,
         test_passed |-> test_passed,
         expected_outcome |-> Get(reasoning_result, "expected_outcome", ""),
         validation_criteria |-> Get(reasoning_result, "validation_criteria", ""),
         non_compliant_detected |-> non_compliant_detected,
         compliance_count |-> Len(compliance_data),
         validated_at |-> Timestamp]

StepValidate ==
    /\ pc = "stage" /\ stage = 6
    /\ \/ NoFault /\ StageReturns("validate",
            StepValidateResult(safety_mode,
                               iteration_result["steps"]["monitor"],
                               iteration_result["steps"]["reason"]))
       \/ Fault /\ StageRaises("validate", "validate failed")
    /\ UNCHANGED <<safety_mode, env_safety_mode, test_history, clock, direct_calls, last_context, misconfig_calls, execution_history, history_file, buckets, s3_calls,
                   evidence_items, max_iterations, loop_results, iteration, sleeps, raised>>

\* ----------------------------------------------------------------- report

\* vanta_integration.py 17-38: CONTROL_MAPPINGS[...]["soc2"]
ControlMappings ==
    [fis_chaos_test |-> <<"CC7.2", "CC9.1">>,
     iac_scan |-> <<"CC8.1", "CC7.2">>,
     infrastructure_monitoring |-> <<"CC7.2", "CC7.3">>]

\* vanta_integration.py 388-459: the evidence items of the package
CreateEvidencePackage(semgrep_results, aws_metrics, outcome) ==
    LET chaos == [i \in 1..Len(ControlMappings.fis_chaos_test) |->
                    [control_id |-> ControlMappings.fis_chaos_test[i],
                     test_type |-> "chaos_engineering",
                     result |-> outcome,
                     findings |-> 0]]
        finding_count == Get(semgrep_results, "finding_count", 0)
        iac == IF DOMAIN semgrep_results # {}
               THEN [i \in 1..Len(ControlMappings.iac_scan) |->
                       [control_id |-> ControlMappings.iac_scan[i],
                        test_type |-> "static_analysis",
                        result |-> IF finding_count = 0 THEN "pass"
                                   ELSE "findings_detected",
                        findings |-> finding_count]]
               ELSE <<>>
        monitoring == [i \in 1..Len(ControlMappings.infrastructure_monitoring) |->
                         [control_id |-> ControlMappings.infrastructure_monitoring[i],
                          test_type |-> "continuous_monitoring",
                          result |-> "operational",
                          findings |-> 0]]
    IN  chaos \o iac \o monitoring

\* orchestrator.py 386-410, vanta_integration.py 461-491
StepReport ==
    /\ pc = "stage" /\ stage = 7
    /\ \/ LET steps == iteration_result["steps"]
              items == CreateEvidencePackage(
                           steps["scan"],
                           Get(steps["monitor"], "metrics", <<>>),
                           Get(steps["validate"], "outcome", "unknown"))
          IN  /\ evidence_items' = items
              /\ NoFault
              /\ StageReturns("report",
                    [package_id |-> "pkg-correlation-id",
                     evidence_count |-> Len(items),
                     reported_at |-> Timestamp])
       \/ /\ Fault
          /\ StageRaises("report", "report failed")
          /\ UNCHANGED evidence_items
    /\ UNCHANGED <<safety_mode, env_safety_mode, test_history, clock, direct_calls, last_context, misconfig_calls, execution_history, history_file, buckets, s3_calls,
                   max_iterations, loop_results, iteration, sleeps, raised>>

\* ------------------------------------------------------------------ learn

\* orchestrator.py 415-423
HistoryEntry(result) ==
    LET steps == Get(result, "steps", EmptyDict)
        reason == Get(steps, "reason", EmptyDict)
        validate == Get(steps, "validate", EmptyDict)
        scan == Get(steps, "scan", EmptyDict)
    IN  [iteration_id |-> Get(result, "iteration_id", "None"),
         timestamp |-> Get(result, "started_at", "None"),
         target |-> Get(reason, "target_resource", "None"),
         chaos_type |-> Get(reason, "chaos_type", Null),
         outcome |-> Get(validate, "outcome", "None"),
         test_passed |-> Get(validate, "test_passed", "None"),
         findings_count |-> Get(scan, "total_findings", 0)]

\* the new entry is put in front of the history
LearnAppend_Prepends(history, entry) == <<entry>> \o history

\* orchestrator.py 425: self.execution_history.append(history_entry)
LearnAppend(history, entry) == Append(history, entry)

\* what the file system does in Learn: the file is written, open() fails
\* (caught and logged), or Path.cwd() raises (not inside the try)
LearnBehaviours == {"saved", "open_failed", "cwd_raises"}

\* orchestrator.py 412-441 and 204-209
StepLearn ==
    /\ pc = "stage" /\ stage = 8
    /\ \E fs \in LearnBehaviours :
        LET history == LearnAppend(execution_history, HistoryEntry(iteration_result))
        IN  /\ IF fs = "saved" THEN NoFault ELSE Fault
            /\ execution_history' = history
            /\ history_file' = IF fs = "saved"
                               THEN [exists |-> TRUE, content |-> history]
                               ELSE history_file
            /\ IF fs = "cwd_raises"
               THEN StageRaises("learn", "FileNotFoundError")
               ELSE LET learned == RecordStep(iteration_result, "learn",
                                      [stored |-> TRUE,
                                       history_length |-> Len(history),
                                       history_file |-> "cwd/chaossec_history.json"])
                    IN  /\ stages_run' = Append(stages_run, "learn")
                        /\ iteration_result' =
                             Put(Put(learned, "completed_at", Timestamp),
                                 "status", "success")
                        /\ stage' = stage + 1
                        /\ pc' = "iteration_returned"
                        /\ returned_iterations' =
                             Append(returned_iterations, iteration_result')
    /\ UNCHANGED <<safety_mode, env_safety_mode, test_history, clock, direct_calls, last_context, misconfig_calls, buckets, s3_calls, evidence_items,
                   max_iterations, loop_results, iteration, sleeps, raised>>

\* orchestrator.py 443-455 (current_twin_id is not part of the state modelled)
GetSummary ==
    [correlation_id |-> "correlation-id",
     safety_mode |-> safety_mode,
     execution_count |-> Len(execution_history),
     recent_history |-> LastN(execution_history, HistoryWindow)]

\* ------------------------------------------------------------ direct calls

\* an orchestrator whose methods are called one by one, as the unit tests do
InitDirect ==
    /\ safety_mode \in BOOLEAN
    /\ env_safety_mode = Null
    /\ clock = 0
    /\ direct_calls = <<>>
    /\ test_history = <<>>
    /\ last_context = EmptyDict
    /\ misconfig_calls = <<>>
    /\ execution_history = <<>>
    /\ history_file = [exists |-> FALSE, content |-> <<>>]
    /\ buckets = [b \in BucketNames |-> PrivateBucket]
    /\ s3_calls = <<>>
    /\ evidence_items = <<>>
    /\ max_iterations = [int |-> TRUE, n |-> 0]
    /\ loop_results = EmptyDict
    /\ iteration = 0
    /\ sleeps = 0
    /\ iteration_result = EmptyDict
    /\ stage = 0
    /\ stages_run = <<>>
    /\ returned_iterations = <<>>
    /\ raised = "none"
    /\ faults = 0
    /\ pc = "direct"

\* a method that changes no state is called and its result is noted
DirectCall(method, args, result) ==
    /\ pc = "direct"
    /\ Len(direct_calls) < MaxCalls
    /\ direct_calls' = Append(direct_calls,
                               [method |-> method, args |-> args, result |-> result])
    /\ UNCHANGED <<safety_mode, env_safety_mode, test_history, clock, last_context, misconfig_calls, execution_history,
                   history_file, buckets, s3_calls, evidence_items, max_iterations,
                   loop_results, iteration, sleeps, iteration_result, stage,
                   stages_run, returned_iterations, raised, faults, pc>>

\* time passes between two calls
Tick ==
    /\ pc = "direct"
    /\ clock < MaxTicks
    /\ clock' = clock + 1
    /\ UNCHANGED <<safety_mode, env_safety_mode, test_history, direct_calls, last_context, misconfig_calls,
                   execution_history, history_file, buckets, s3_calls, evidence_items,
                   max_iterations, loop_results, iteration, sleeps, iteration_result,
                   stage, stages_run, returned_iterations, raised, faults, pc>>

\* monitoring results and recommendations _step_validate is called with
MonitoringResults == {[compliance |-> c] : c \in ComplianceLists} \cup {EmptyDict}

ReasoningResults == {FallbackRecommendation(EmptyDict), EmptyDict}

\* orchestrator.py 351-384, called directly
CallStepValidate ==
    \E monitoring_result \in MonitoringResults, reasoning_result \in ReasoningResults :
        DirectCall("_step_validate", <<monitoring_result, reasoning_result>>,
                   StepValidateResult(safety_mode, monitoring_result, reasoning_result))

\* texts _parse_bedrock_response is called with
DirectTexts ==
    {NotJsonAtAll,
     <<>>,
     FullObjectText(StringLit(Str(PublicReadACL))),
     FullObjectText(Punct("null")),
     <<ObjectTokens(<< <<"chaos_type", StringLit(Str(stop_ec2))>> >>)>>,
     <<ObjectTokens(<<>>)>>,
     ArrayText(<<>>),
     ArrayText(RequiredFields),
     << <<NumberLit(42)>> >>,
     << <<>>, ObjectTokens(<< <<"reasoning", StringLit("chosen")>> >>), <<>> >>,
     << <<Fence, Word("json")>>, ObjectTokens(FullMembers(StringLit(Str(stop_ec2)))), <<Fence>> >>,
     << <<Fence>>, <<Fence>> >>,
     << <<Punct("{"), StringLit("chaos_type"), Punct(":")>> >>,
     << ObjectTokens(<<>>) \o <<Word("x")>> >>}

\* agent_brain.py 253-296, called directly
CallParseBedrockResponse ==
    \E response \in DirectTexts :
        DirectCall("_parse_bedrock_response", <<response>>, ParseBedrockResponse(response))

\* contexts and decision-maker behaviours reason_next_chaos is called with
DirectContexts ==
    {ReasonContext(<<>>, EmptyDict),
     ReasonContext(<<EarlierEntry>>, StepScanResult(<<[severity |-> "ERROR"]>>))}

DirectOutcomes ==
    {[kind |-> "call_failed"]}
    \cup [kind : {"text"},
          text : {NotJsonAtAll,
                  ArrayText(<<>>),
                  ArrayText(RequiredFields),
                  FullObjectText(Punct("null")),
                  <<ObjectTokens(<<>>)>>}]

\* agent_brain.py 93-133, called directly
CallReasonNextChaos ==
    \E ctx \in DirectContexts, outcome \in DirectOutcomes :
        DirectCall("reason_next_chaos", <<ctx, outcome>>,
                   Returns(ReasonNextChaos(ctx, outcome)))

\* what get_experiment answers, poll after poll
FisAnswers == {<<>>,
               <<"pending", "running">>,
               <<"running", "completed">>,
               <<"failed">>,
               <<"initiating", "stopped">>,
               <<"running", "client_error">>}

\* aws_handler.py 89-148, called directly
CallMonitorFisExperiment ==
    \E answers \in FisAnswers :
        DirectCall("monitor_fis_experiment", <<answers>>, MonitorFisExperiment(answers))

NextDirect ==
    \/ Tick
    \/ CallMonitorFisExperiment
    \/ CallStepValidate
    \/ CallParseBedrockResponse
    \/ CallReasonNextChaos

SpecDirect == InitDirect /\ [][NextDirect]_vars

\* -------------------------------------------------------- history analysis

\* results as a caller of analyze_history passes them: with or without an
\* outcome, with or without a failure type
PastResults ==
    {EmptyDict,
     [outcome |-> "success"],
     [outcome |-> "success_simulated"],
     [outcome |-> "failure"],
     [outcome |-> "success", failure_type |-> "timeout"]}
    \cup [outcome : {"failure"}, failure_type : {"timeout", "detection", "access"}]

PastResultLists == UNION {[1..n -> PastResults] : n \in 0..MaxHistory}

\* an agent brain whose analyze_history is called on a list of results
InitAnalyze ==
    /\ safety_mode = TRUE
    /\ env_safety_mode = Null
    /\ clock = 0
    /\ direct_calls = <<>>
    /\ test_history \in PastResultLists
    /\ last_context = EmptyDict
    /\ misconfig_calls = <<>>
    /\ execution_history = <<>>
    /\ history_file = [exists |-> FALSE, content |-> <<>>]
    /\ buckets = [b \in BucketNames |-> PrivateBucket]
    /\ s3_calls = <<>>
    /\ evidence_items = <<>>
    /\ max_iterations = [int |-> TRUE, n |-> 0]
    /\ loop_results = EmptyDict
    /\ iteration = 0
    /\ sleeps = 0
    /\ iteration_result = EmptyDict
    /\ stage = 0
    /\ stages_run = <<>>
    /\ returned_iterations = <<>>
    /\ raised = "none"
    /\ faults = 0
    /\ pc = "direct"

\* agent_brain.py 41-91, called directly
CallAnalyzeHistory ==
    DirectCall("analyze_history", <<test_history>>,
               Returns(AnalyzeHistory(test_history)))

NextAnalyze ==
    \/ Tick
    \/ CallAnalyzeHistory

SpecAnalyze == InitAnalyze /\ [][NextAnalyze]_vars

\* ------------------------------------------------------------ specification

Next ==
    \/ RunChaosSecLoop
    \/ RangeRaises
    \/ BeginIteration
    \/ SequencerRaises
    \/ StepSimulate
    \/ StepScan
    \/ StepReason
    \/ StepInjectChaos
    \/ StepMonitor
    \/ StepValidate
    \/ StepReport
    \/ StepLearn
    \/ LoopAppend
    \/ LoopCompleted
    \/ GenerateReportSummary
    \/ GenerateReportSummaryRaises

Spec == Init /\ [][Next]_vars

\* the run of an orchestrator configured from the environment
SpecLoadConfig == InitLoadConfig /\ [][Next]_vars

\* the run of an orchestrator that follows an earlier one
SpecEarlierRun == InitEarlierRun /\ [][Next]_vars

\* ------------------------------------------------------------------ claims

\* the first k stage keys
KeysUpTo(k) == {StageKeys[i] : i \in 1..k}

\* the results appended to the summary of the run
SummaryIterations == Get(loop_results, "iterations", <<>>)

\* every iteration result that exists: the one being built, the ones
\* returned by the sequencer and the ones held by the summary
IterationResults ==
    (IF "steps" \in DOMAIN iteration_result THEN {iteration_result} ELSE {})
    \cup {returned_iterations[i] : i \in 1..Len(returned_iterations)}
    \cup {SummaryIterations[i] : i \in 1..Len(SummaryIterations)}

HasStatus(r, status) == "status" \in DOMAIN r /\ r["status"] = status

\* C1: the recorded stages are always a prefix of simulate, scan, reason,
\* inject (key "chaos"), monitor, validate, report, learn; when stage k is
\* about to start exactly the k-1 earlier results are recorded; and a result
\* holds all eight exactly when its status is 'success'.
C1_StepsArePrefix ==
    /\ \A r \in IterationResults :
          /\ \E k \in 0..8 : DOMAIN r["steps"] = KeysUpTo(k)
          /\ (DOMAIN r["steps"] = KeysUpTo(8)) <=> HasStatus(r, "success")
    /\ pc = "stage" =>
          /\ stage \in 1..8
          /\ stages_run = [i \in 1..(stage - 1) |-> StageKeys[i]]
          /\ DOMAIN iteration_result["steps"] = KeysUpTo(stage - 1)
          /\ "status" \notin DOMAIN iteration_result

C1_Witness ==
    /\ pc = "iteration_returned"
    /\ stages_run = StageKeys
    /\ DOMAIN iteration_result["steps"] = KeysUpTo(8)
    /\ HasStatus(iteration_result, "success")

\* C2: in safety mode no mutating S3 call is ever issued and every bucket
\* keeps the state it had before the run.
C2_SafetyModeNoMutation ==
    safety_mode =>
        /\ s3_calls = <<>>
        /\ \A b \in BucketNames : buckets[b] = PrivateBucket

\* a finished two-iteration safety-mode run in which the inject stage
\* dispatched to the cloud collaborator
C2_Witness ==
    /\ safety_mode
    /\ pc = "returned"
    /\ Len(SummaryIterations) = 2
    /\ \E i \in 1..Len(SummaryIterations) :
          /\ "chaos" \in DOMAIN SummaryIterations[i]["steps"]
          /\ "bucket" \in DOMAIN SummaryIterations[i]["steps"]["chaos"]

\* C3: in safety mode no recorded stage result has applied = true, and the
\* inject result has applied = false whether or not the fault type was
\* dispatched.
C3_SafetyModeNeverApplied ==
    safety_mode =>
        \A r \in IterationResults :
            /\ \A k \in DOMAIN r["steps"] :
                  "applied" \in DOMAIN r["steps"][k] => r["steps"][k]["applied"] = FALSE
            /\ "chaos" \in DOMAIN r["steps"] =>
                  /\ "applied" \in DOMAIN r["steps"]["chaos"]
                  /\ r["steps"]["chaos"]["applied"] = FALSE

\* one iteration dispatched to the collaborator, another had an
\* unrecognized fault type
C3_Witness ==
    /\ safety_mode
    /\ \E i, j \in 1..Len(SummaryIterations) :
          /\ "chaos" \in DOMAIN SummaryIterations[i]["steps"]
          /\ "bucket" \in DOMAIN SummaryIterations[i]["steps"]["chaos"]
          /\ "chaos" \in DOMAIN SummaryIterations[j]["steps"]
          /\ "note" \in DOMAIN SummaryIterations[j]["steps"]["chaos"]

\* some compliance record of the monitoring result is NON_COMPLIANT
SawNonCompliant(monitoring_result) ==
    \E i \in 1..Len(monitoring_result["compliance"]) :
        monitoring_result["compliance"][i]["compliance_type"] = "NON_COMPLIANT"

\* C4: in safety mode every validate result has test_passed = true and
\* outcome 'success_simulated', whatever was monitored, and so has every
\* history entry.
C4_SafetyModeAlwaysPasses ==
    safety_mode =>
        /\ \A r \in IterationResults :
              "validate" \in DOMAIN r["steps"] =>
                  /\ r["steps"]["validate"]["test_passed"] = TRUE
                  /\ r["steps"]["validate"]["outcome"] = "success_simulated"
        /\ \A i \in 1..Len(execution_history) :
              /\ execution_history[i]["outcome"] = "success_simulated"
              /\ execution_history[i]["test_passed"] = TRUE

\* two learned iterations, one monitored an empty compliance list and the
\* other a NON_COMPLIANT record
C4_Witness ==
    /\ safety_mode
    /\ Len(execution_history) = 2
    /\ \E i, j \in 1..Len(SummaryIterations) :
          /\ "validate" \in DOMAIN SummaryIterations[i]["steps"]
          /\ SummaryIterations[i]["steps"]["monitor"]["compliance"] = <<>>
          /\ "validate" \in DOMAIN SummaryIterations[j]["steps"]
          /\ SawNonCompliant(SummaryIterations[j]["steps"]["monitor"])

\* C5: with safety mode off, test_passed holds exactly when a NON_COMPLIANT
\* record was monitored, outcome is 'success' or 'failure' accordingly,
\* non_compliant_detected equals test_passed, and an empty list fails.
C5_RealModeDetection ==
    ~safety_mode =>
        \A r \in IterationResults :
            "validate" \in DOMAIN r["steps"] =>
                LET v == r["steps"]["validate"]
                    m == r["steps"]["monitor"]
                IN  /\ v["test_passed"] = SawNonCompliant(m)
                    /\ v["outcome"] = IF SawNonCompliant(m) THEN "success" ELSE "failure"
                    /\ v["non_compliant_detected"] = v["test_passed"]
                    /\ m["compliance"] = <<>> =>
                          (v["test_passed"] = FALSE /\ v["outcome"] = "failure")

C5_Witness ==
    /\ ~safety_mode
    /\ \E i, j \in 1..Len(SummaryIterations) :
          /\ "validate" \in DOMAIN SummaryIterations[i]["steps"]
          /\ SummaryIterations[i]["steps"]["monitor"]["compliance"] = <<>>
          /\ SummaryIterations[i]["steps"]["validate"]["outcome"] = "failure"
          /\ "validate" \in DOMAIN SummaryIterations[j]["steps"]
          /\ SawNonCompliant(SummaryIterations[j]["steps"]["monitor"])
          /\ SummaryIterations[j]["steps"]["validate"]["outcome"] = "success"

Last(seq) == seq[Len(seq)]

IsPrefix(a, b) == Len(a) <= Len(b) /\ SubSeq(b, 1, Len(a)) = a

\* a stage was called in this step and left no result: it raised
StageRaisedInStep ==
    /\ pc = "stage"
    /\ Len(stages_run') = Len(stages_run) + 1
    /\ Last(stages_run') \notin DOMAIN iteration_result'["steps"]

\* C6: when the k-th stage raises, the sequencer returns (the run loop sees
\* no exception) a result with status 'error', an error text, a completion
\* timestamp and exactly the k-1 earlier stage results, unchanged; the
\* stages were called once each up to k, none is called afterwards, and
\* what earlier stages did to the history, the bucket, the history file and
\* the evidence stays.
C6_StageFailureEndsIteration ==
    [][ /\ StageRaisedInStep =>
              /\ pc' = "iteration_returned"
              /\ raised' = raised
              /\ HasStatus(iteration_result', "error")
              /\ "error" \in DOMAIN iteration_result'
              /\ "completed_at" \in DOMAIN iteration_result'
              /\ iteration_result'["steps"] = iteration_result["steps"]
              /\ DOMAIN iteration_result'["steps"] = KeysUpTo(stage - 1)
              /\ stages_run' = [i \in 1..stage |-> StageKeys[i]]
              /\ Last(returned_iterations') = iteration_result'
              /\ IsPrefix(execution_history, execution_history')
              /\ IsPrefix(s3_calls, s3_calls')
              /\ stage # 4 => buckets' = buckets
              /\ history_file' = history_file
              /\ evidence_items' = evidence_items
        /\ (pc = "iteration_returned" /\ HasStatus(iteration_result, "error")) =>
              /\ pc' = "loop"
              /\ stages_run' = stages_run
              /\ iteration_result' = iteration_result
      ]_vars

\* Scenario F: the third stage raised after two stages succeeded
C6_Witness ==
    /\ pc = "iteration_returned"
    /\ HasStatus(iteration_result, "error")
    /\ stages_run = <<"simulate", "scan", "reason">>
    /\ DOMAIN iteration_result["steps"] = KeysUpTo(2)
    /\ "error" \in DOMAIN iteration_result

\* C7: when no exception reaches the run loop itself, a run of N >= 0
\* iterations returns N results in execution order, the failed ones with
\* status 'error', and total_iterations = N; its status is 'completed'
\* unless the final summary generation raised.
C7_StageFailureKeepsLoopRunning ==
    /\ pc = "loop" =>
          /\ Len(SummaryIterations) = iteration
          /\ SummaryIterations = returned_iterations
    /\ (pc = "returned" /\ max_iterations.int /\ max_iterations.n >= 0
          /\ raised \in {"none", "summary"}) =>
          /\ Len(SummaryIterations) = max_iterations.n
          /\ SummaryIterations = returned_iterations
          /\ loop_results["total_iterations"] = max_iterations.n
          /\ raised = "none" => HasStatus(loop_results, "completed")
          /\ \A i \in 1..Len(SummaryIterations) :
                IF DOMAIN SummaryIterations[i]["steps"] = KeysUpTo(8)
                THEN HasStatus(SummaryIterations[i], "success")
                ELSE HasStatus(SummaryIterations[i], "error")

\* the first of two iterations failed in a stage, the second succeeded
C7_Witness ==
    /\ pc = "returned"
    /\ raised = "none"
    /\ max_iterations.n = 2
    /\ Len(SummaryIterations) = 2
    /\ HasStatus(SummaryIterations[1], "error")
    /\ HasStatus(SummaryIterations[2], "success")
    /\ HasStatus(loop_results, "completed")

\* C8: every exception that reaches the run loop (from range(), from the
\* sequencer, from the summary generation) ends in a returned result with
\* status 'error'; every returned result has status 'completed' or 'error'.
C8_RunAlwaysReturnsResult ==
    /\ raised # "none" =>
          /\ pc = "returned"
          /\ HasStatus(loop_results, "error")
          /\ "error" \in DOMAIN loop_results
    /\ pc = "returned" =>
          /\ "status" \in DOMAIN loop_results
          /\ loop_results["status"] \in {"completed", "error"}

\* the final summary generation raised after a stage-free or full run
C8_Witness ==
    /\ pc = "returned"
    /\ raised = "summary"
    /\ HasStatus(loop_results, "error")

\* C9: when an exception escapes the sequencer in iteration i, the run has
\* returned with status 'error' and the error text, the summary holds
\* exactly the i-1 results returned before, in order, and no further
\* iteration was started.
C9_SequencerEscapeStopsRun ==
    raised = "sequencer" =>
        /\ pc = "returned"
        /\ HasStatus(loop_results, "error")
        /\ Get(loop_results, "error", "None") = "sequencer"
        /\ SummaryIterations = returned_iterations
        /\ Len(SummaryIterations) = iteration
        /\ iteration < max_iterations.n
        /\ Len(returned_iterations) > 0 => iteration_result = Last(returned_iterations)

C9_Witness ==
    /\ raised = "sequencer"
    /\ pc = "returned"
    /\ Len(SummaryIterations) >= 1

RunStatus(results) == Get(results, "status", "unset")

\* C10: the status of the run's summary goes from unset to 'completed' or
\* to 'error' and, once it is 'completed' or 'error', never changes.
C10_RunStatusAbsorbing ==
    [][ /\ RunStatus(loop_results) = "unset" =>
              RunStatus(loop_results') \in {"unset", "completed", "error"}
        /\ RunStatus(loop_results) \in {"completed", "error"} =>
              RunStatus(loop_results') = RunStatus(loop_results)
      ]_vars

\* the iteration got as far as calling the learn stage
ReachedLearn(r) == KeysUpTo(7) \subseteq DOMAIN r["steps"]

\* the results of the earlier iterations that reached Learn, in order
LearnedIterations == SelectSeq(returned_iterations, ReachedLearn)

\* C11: while an iteration runs, every earlier iteration has returned and
\* its result is in the summary; and once its reason stage has run, the
\* context holds as previous_tests the last min(5, h) history entries in
\* insertion order and an analysis of all h entries, where h is the number
\* of earlier iterations that reached Learn and the k-th entry is the one
\* the k-th of them left.
C11_SequentialIterationsAndContext ==
    /\ pc = "stage" =>
          /\ Len(returned_iterations) = iteration
          /\ SummaryIterations = returned_iterations
    /\ pc = "iteration_returned" => Len(returned_iterations) = iteration + 1
    /\ (pc = "stage" /\ stage > 3) =>
          LET h == Len(LearnedIterations)
              m == IF h < 5 THEN h ELSE 5
          IN  /\ Len(execution_history) = h
              /\ \A k \in 1..h :
                    execution_history[k]["timestamp"] = LearnedIterations[k]["started_at"]
              /\ Len(last_context["previous_tests"]) = m
              /\ \A k \in 1..m :
                    last_context["previous_tests"][k] = execution_history[h - m + k]
              /\ last_context["history_analysis"]["total_tests"] = h
              /\ h > 0 =>
                    last_context["history_analysis"]["most_recent"] = execution_history[h]

\* the reason stage of the seventh iteration ran on a history of six
C11_Witness ==
    /\ pc = "stage"
    /\ stage = 4
    /\ Len(execution_history) = 6
    /\ Len(last_context["previous_tests"]) = 5
    /\ last_context["previous_tests"][1] = execution_history[2]

\* the entry is the one Learn builds from the result of that iteration
EntryOf(entry, r) ==
    /\ entry["iteration_id"] = r["iteration_id"]
    /\ entry["timestamp"] = r["started_at"]
    /\ entry["target"] = r["steps"]["reason"]["target_resource"]
    /\ entry["chaos_type"] = r["steps"]["reason"]["chaos_type"]
    /\ entry["outcome"] = r["steps"]["validate"]["outcome"]
    /\ entry["test_passed"] = r["steps"]["validate"]["test_passed"]
    /\ entry["findings_count"] = r["steps"]["scan"]["total_findings"]

\* C12: the in-memory history is empty after construction; no step
\* removes, reorders or modifies an entry; a call of the learn stage appends
\* exactly one entry at the end (also when the stage then fails), and no
\* other step, a stage failure before Learn included, appends any; and
\* get_summary().execution_count is the number of iterations that reached
\* Learn, the k-th entry being the one of the k-th of them.
C12_HistoryAppendOnly ==
    [][ /\ pc = "not_started" => execution_history = <<>>
        /\ IsPrefix(execution_history, execution_history')
        /\ (pc = "stage" /\ stage = 8) =>
              Len(execution_history') = Len(execution_history) + 1
        /\ ~(pc = "stage" /\ stage = 8) => execution_history' = execution_history
        /\ GetSummary'["execution_count"] = Len(LearnedIterations')
        /\ \A k \in 1..Len(execution_history') :
              EntryOf(execution_history'[k], LearnedIterations'[k])
      ]_vars

\* a run of three results: Learn reached, a failure before Learn, Learn
\* reached again
C12_Witness ==
    /\ Len(returned_iterations) = 3
    /\ ReachedLearn(returned_iterations[1])
    /\ ~ReachedLearn(returned_iterations[2])
    /\ ReachedLearn(returned_iterations[3])
    /\ GetSummary["execution_count"] = 2
    /\ Len(execution_history) = 2

\* C13: whenever Learn writes the history file, the file then holds the
\* whole history and what the file held before (written by an earlier Learn
\* of this or of an earlier orchestrator) is a prefix of it; and the
\* history the reason stage works on begins with what the file holds.
C13_PersistedHistoryAppendOnly ==
    [][ /\ history_file' # history_file =>
              /\ history_file'.exists
              /\ history_file'.content = execution_history'
              /\ IsPrefix(history_file.content, history_file'.content)
        /\ (pc = "stage" /\ stage = 3 /\ stage' = 4) =>
              /\ IsPrefix(history_file.content, execution_history)
              /\ last_context'["history_analysis"]["total_tests"]
                    >= Len(history_file.content)
      ]_vars

\* C14: an iteration that reached Learn ends with status 'success' and all
\* eight stages recorded whether or not the history file could be written,
\* its entry is in the in-memory history, and the context of every later
\* reason stage is built from the in-memory history, not from the file.
C14_WriteFailureKeepsIteration ==
    /\ \A i \in 1..Len(returned_iterations) :
          ReachedLearn(returned_iterations[i]) =>
              /\ HasStatus(returned_iterations[i], "success")
              /\ DOMAIN returned_iterations[i]["steps"] = KeysUpTo(8)
    /\ Len(execution_history) = Len(LearnedIterations)
    /\ (pc = "stage" /\ stage > 3) =>
          /\ last_context["history_analysis"]["total_tests"] = Len(execution_history)
          /\ last_context["previous_tests"] = LastN(execution_history, 5)

\* C15: two calls of _step_validate on the same orchestrator with the same
\* monitoring result and the same recommendation return the same output,
\* every field equal, whatever happened between them.
C15_ValidateIsPure ==
    \A i, j \in 1..Len(direct_calls) :
        (/\ direct_calls[i].method = "_step_validate"
         /\ direct_calls[j].method = "_step_validate"
         /\ direct_calls[i].args = direct_calls[j].args) =>
            direct_calls[i].result = direct_calls[j].result

\* C16: every call of the inject stage returns a result, which is recorded,
\* and the iteration goes on to Monitor; when the cloud collaborator failed
\* during the call the result has applied = false and outcome 'failure'.
C16_InjectNeverAborts ==
    [][ (pc = "stage" /\ stage = 4) =>
            /\ pc' = "stage"
            /\ stage' = 5
            /\ "chaos" \in DOMAIN iteration_result'["steps"]
            /\ "applied" \in DOMAIN iteration_result'["steps"]["chaos"]
            /\ faults' > faults =>
                  /\ iteration_result'["steps"]["chaos"]["applied"] = FALSE
                  /\ iteration_result'["steps"]["chaos"]["outcome"] = "failure"
      ]_vars

\* the string contains 'public' or 's3' in any mix of upper and lower case
HasMarker(chars) ==
    \E i \in 1..Len(chars) :
        \/ /\ i + 5 <= Len(chars)
           /\ Lower(SubSeq(chars, i, i + 5)) = <<"p","u","b","l","i","c">>
        \/ /\ i + 1 <= Len(chars)
           /\ Lower(SubSeq(chars, i, i + 1)) = <<"s","3">>

\* C17: when the inject stage runs on a fault-type string, it calls
\* simulate_s3_bucket_misconfiguration, once, with the target, make_public
\* and the orchestrator's safety_mode, exactly when the string contains
\* 'public' or 's3' in any case; otherwise nothing is called in either
\* mode, no bucket changes and the recorded result has applied = false and
\* the fallback note.  No other step calls the collaborator's entry point.
C17_InjectDispatch ==
    [][ IF pc = "stage" /\ stage = 4
        THEN LET reasoning_result == iteration_result["steps"]["reason"]
                 chaos_type == reasoning_result["chaos_type"]
             IN  chaos_type.t = "str" =>
                   IF HasMarker(chaos_type.v)
                   THEN misconfig_calls' = Append(misconfig_calls,
                           [bucket_name |-> reasoning_result["target_resource"],
                            make_public |-> TRUE,
                            safety_mode |-> safety_mode])
                   ELSE /\ misconfig_calls' = misconfig_calls
                        /\ s3_calls' = s3_calls
                        /\ buckets' = buckets
                        /\ pc' = "stage"
                        /\ iteration_result'["steps"]["chaos"]["applied"] = FALSE
                        /\ iteration_result'["steps"]["chaos"]["note"] = "Fallback to S3 test"
        ELSE misconfig_calls' = misconfig_calls
      ]_vars

\* with safety mode off, 'PublicReadACL' was dispatched and applied and
\* 'stop_ec2' fell back
C17_Witness ==
    /\ ~safety_mode
    /\ Len(misconfig_calls) = 1
    /\ \E i, j \in 1..Len(SummaryIterations) :
          /\ "chaos" \in DOMAIN SummaryIterations[i]["steps"]
          /\ SummaryIterations[i]["steps"]["chaos"]["chaos_type"] = Str(PublicReadACL)
          /\ SummaryIterations[i]["steps"]["chaos"]["applied"] = TRUE
          /\ "chaos" \in DOMAIN SummaryIterations[j]["steps"]
          /\ SummaryIterations[j]["steps"]["reason"]["chaos_type"] = Str(stop_ec2)
          /\ "note" \in DOMAIN SummaryIterations[j]["steps"]["chaos"]

\* the five required fields, as the claims name them
FiveFields == {"target_resource", "chaos_type", "expected_outcome",
               "validation_criteria", "compliance_control"}

\* C18: every call of reason_next_chaos returns without raising; when the
\* decision-maker call failed it returns, for every context, the same
\* recommendation: the S3 public-access test on the default bucket with
\* fallback = true and no error field.
C18_ReasonAlwaysRecommends ==
    \A i \in 1..Len(direct_calls) :
        direct_calls[i].method = "reason_next_chaos" =>
            /\ ~direct_calls[i].result.raises
            /\ FiveFields \subseteq DOMAIN direct_calls[i].result.value
            /\ direct_calls[i].args[2].kind = "call_failed" =>
                  LET r == direct_calls[i].result.value
                  IN  /\ "error" \notin DOMAIN r
                      /\ "fallback" \in DOMAIN r
                      /\ r["fallback"] = TRUE
                      /\ r["target_resource"] = "s3-chaossec-test-bucket"
                      /\ r["chaos_type"] = Str(make_s3_public)
                      /\ r["compliance_control"] = "SOC2:CC6.6 - Logical Access Controls"
                      /\ \A j \in 1..Len(direct_calls) :
                            (/\ direct_calls[j].method = "reason_next_chaos"
                             /\ direct_calls[j].args[2].kind = "call_failed") =>
                                direct_calls[j].result.value = r

\* the call failed under two different contexts, with the same result
C18_Witness ==
    /\ Len(direct_calls) = 2
    /\ direct_calls[1].method = "reason_next_chaos"
    /\ direct_calls[2].method = "reason_next_chaos"
    /\ direct_calls[1].args[2].kind = "call_failed"
    /\ direct_calls[2].args[2].kind = "call_failed"
    /\ direct_calls[1].args[1] # direct_calls[2].args[1]
    /\ direct_calls[1].result = direct_calls[2].result

\* the calls of the Normalizer made so far
ParseCalls == {i \in 1..Len(direct_calls) :
                  direct_calls[i].method = "_parse_bedrock_response"}

\* what json.loads makes of the text of the call, fence and blank lines
\* removed as the Normalizer removes them
LoadsOf(response) ==
    LET stripped == Strip(response)
        fenced == stripped # <<>> /\ stripped[1] # <<>> /\ stripped[1][1] = Fence
    IN  JsonLoads(IF fenced /\ Len(stripped) > 2
                  THEN SubSeq(stripped, 2, Len(stripped) - 1)
                  ELSE stripped)

\* C19: for every text that parses, _parse_bedrock_response returns, without
\* raising, a recommendation that has all five required fields, with
\* 'Not specified' in each field the parsed value lacks and every field of
\* the parsed value unchanged.
C19_NormalizerFillsRequired ==
    \A i \in ParseCalls :
        LET loaded == LoadsOf(direct_calls[i].args[1])
            result == direct_calls[i].result
        IN  loaded.ok =>
              /\ ~result.raises
              /\ result.value.t = "dict"
              /\ FiveFields \subseteq DOMAIN result.value.v
              /\ loaded.value.t = "dict" =>
                    /\ \A f \in DOMAIN loaded.value.v :
                          result.value.v[f] = loaded.value.v[f]
                    /\ \A f \in FiveFields \ DOMAIN loaded.value.v :
                          result.value.v[f] = NotSpecifiedFor(f)
                    /\ DOMAIN result.value.v = FiveFields \cup DOMAIN loaded.value.v

\* C20: for every text that does not parse, _parse_bedrock_response returns
\* the parse-error fallback (target s3-bucket-default, fault type
\* make_s3_public, reasoning 'Fallback due to parse error') with the text
\* it was called with in the error field.
C20_ParseErrorKeepsText ==
    \A i \in ParseCalls :
        LET response == direct_calls[i].args[1]
            result == direct_calls[i].result
        IN  ~LoadsOf(response).ok =>
              /\ ~result.raises
              /\ result.value.v["target_resource"] = "s3-bucket-default"
              /\ result.value.v["chaos_type"] = Str(make_s3_public)
              /\ result.value.v["reasoning"] = "Fallback due to parse error"
              /\ result.value.v["error"] = Str(response)

\* the trimmed text starts with the fence marker
StartsWithFence(trimmed) ==
    trimmed # <<>> /\ trimmed[1] # <<>> /\ trimmed[1][1] = Fence

\* C21: the text the Normalizer parses is the trimmed text without its
\* first and last line exactly when the trimmed text starts with a fence
\* marker and has more than 2 lines, and the trimmed text itself otherwise;
\* a fenced text whose inner lines are an object with all five fields is
\* returned as that object, unchanged.
C21_FenceRemoved ==
    \A i \in ParseCalls :
        LET trimmed == Strip(direct_calls[i].args[1])
            inner == [k \in 1..(Len(trimmed) - 2) |-> trimmed[k + 1]]
        IN  IF StartsWithFence(trimmed) /\ Len(trimmed) > 2
            THEN /\ ExtractJson(direct_calls[i].args[1]) = inner
                 /\ (/\ JsonLoads(inner).ok
                     /\ JsonLoads(inner).value.t = "dict"
                     /\ FiveFields \subseteq DOMAIN JsonLoads(inner).value.v) =>
                        direct_calls[i].result = Returns(JsonLoads(inner).value)
            ELSE ExtractJson(direct_calls[i].args[1]) = trimmed

\* a fenced object of three lines was returned as the object, and a text of
\* two fence lines was parsed as it is
C21_Witness ==
    /\ Len(direct_calls) = 2
    /\ direct_calls[1].method = "_parse_bedrock_response"
    /\ direct_calls[2].method = "_parse_bedrock_response"
    /\ StartsWithFence(direct_calls[1].args[1])
    /\ Len(direct_calls[1].args[1]) = 3
    /\ ~direct_calls[1].result.raises
    /\ direct_calls[1].result.value.t = "dict"
    /\ "error" \notin DOMAIN direct_calls[1].result.value.v
    /\ direct_calls[1].result.value.v["chaos_type"] = Str(stop_ec2)
    /\ direct_calls[2].args[1] = << <<Fence>>, <<Fence>> >>
    /\ "error" \in DOMAIN direct_calls[2].result.value.v

\* the calls of analyze_history made so far
AnalyzeCalls == {i \in 1..Len(direct_calls) :
                    direct_calls[i].method = "analyze_history"}

\* the entries of the list whose outcome is the given one
WithOutcome(l, outcome) ==
    {i \in 1..Len(l) : "outcome" \in DOMAIN l[i] /\ l[i]["outcome"] = outcome}

\* C22: every call of analyze_history returns, without raising, total_tests
\* equal to the length of the list and success_rate equal to the number of
\* entries with outcome 'success' divided by total_tests; for the empty list
\* total_tests = 0, success_rate = 0.0 and a non-empty placeholder
\* recommendation; calls on the same list return the same result.
C22_AnalyzeTotalsAndRate ==
    \A i \in AnalyzeCalls :
        LET l == direct_calls[i].args[1]
            r == direct_calls[i].result
        IN  /\ ~r.raises
            /\ r.value["total_tests"] = Len(l)
            /\ r.value["success_rate"][2] > 0
            /\ r.value["success_rate"][1] * (IF l = <<>> THEN 1 ELSE Len(l))
                  = Cardinality(WithOutcome(l, "success")) * r.value["success_rate"][2]
            /\ l = <<>> =>
                  /\ r.value["success_rate"][1] = 0
                  /\ "recommendations" \in DOMAIN r.value
                  /\ r.value["recommendations"] # <<>>
                  /\ \A k \in 1..Len(r.value["recommendations"]) :
                        r.value["recommendations"][k] # ""
            /\ \A j \in AnalyzeCalls :
                  direct_calls[j].args = direct_calls[i].args =>
                      direct_calls[j].result = r

\* two successes and a failure in a list of three, analysed twice
C22_Witness ==
    /\ Len(direct_calls) = 2
    /\ AnalyzeCalls = {1, 2}
    /\ test_history = <<[outcome |-> "success"],
                        [outcome |-> "failure", failure_type |-> "timeout"],
                        [outcome |-> "success"]>>
    /\ direct_calls[1].args[1] = test_history
    /\ direct_calls[2].result.value["total_tests"] = 3
    /\ direct_calls[2].result.value["success_rate"] = <<2, 3>>

\* the failure type of an entry, as analyze_history reads it
TypeOf(entry) ==
    IF "failure_type" \in DOMAIN entry THEN entry["failure_type"] ELSE "unknown"

\* the entries with outcome 'failure' and the given failure type
FailuresOfType(l, type) == {i \in WithOutcome(l, "failure") : TypeOf(l[i]) = type}

\* where the failure type first appears among the failures of the list
FirstSeen(l, type) ==
    CHOOSE i \in FailuresOfType(l, type) : \A j \in FailuresOfType(l, type) : i <= j

\* type a comes before type b: more failures, or as many and seen earlier
Before(l, a, b) ==
    \/ Cardinality(FailuresOfType(l, a)) > Cardinality(FailuresOfType(l, b))
    \/ /\ Cardinality(FailuresOfType(l, a)) = Cardinality(FailuresOfType(l, b))
       /\ FirstSeen(l, a) < FirstSeen(l, b)

\* C23: common_failures holds at most 3 entries, one per distinct failure
\* type among the entries with outcome 'failure', each with its exact count,
\* sorted by count descending with equal counts in first-seen order; when
\* there are more than 3 types the first 3 of that order are kept.
C23_CommonFailures ==
    \A i \in AnalyzeCalls :
        LET l == direct_calls[i].args[1]
            cf == direct_calls[i].result.value["common_failures"]
            types == {TypeOf(l[k]) : k \in WithOutcome(l, "failure")}
            kept == {cf[k]["type"] : k \in 1..Len(cf)}
        IN  /\ Len(cf) <= 3
            /\ Len(cf) = IF Cardinality(types) > 3 THEN 3 ELSE Cardinality(types)
            /\ Cardinality(kept) = Len(cf)
            /\ kept \subseteq types
            /\ \A k \in 1..Len(cf) :
                  cf[k]["count"] = Cardinality(FailuresOfType(l, cf[k]["type"]))
            /\ \A a, b \in 1..Len(cf) :
                  a < b => Before(l, cf[a]["type"], cf[b]["type"])
            /\ \A t \in types \ kept :
                  \A k \in kept : Before(l, k, t)

\* four failure types, one failure each: the first three are kept, in the
\* order they appear
C23_Witness ==
    /\ AnalyzeCalls # {}
    /\ Len(test_history) = 4
    /\ WithOutcome(test_history, "failure") = 1..4
    /\ \A a, b \in 1..4 :
          a # b => TypeOf(test_history[a]) # TypeOf(test_history[b])
    /\ TypeOf(test_history[1]) = "unknown"
    /\ direct_calls[1].result.value["common_failures"] =
          [k \in 1..3 |-> [type |-> TypeOf(test_history[k]), count |-> 1]]

\* the number of delays a run of N iterations inserts
Delays(N) == IF N > 1 THEN N - 1 ELSE 0

\* C24: run_chaossec_loop(N) sleeps once after each iteration other than
\* the last, whatever the status of that iteration, before the next one
\* starts, and never after the last: while iteration i (counted from 0) runs
\* i delays have been inserted, and a run whose loop came to its end has
\* inserted max(N-1, 0).
C24_DelayBetweenIterations ==
    [][ /\ sleeps' # sleeps =>
              /\ pc = "iteration_returned"
              /\ sleeps' = sleeps + 1
              /\ clock' > clock
              /\ pc' = "loop"
              /\ iteration' < max_iterations.n
        /\ pc = "iteration_returned" =>
              sleeps' = IF iteration = max_iterations.n - 1 THEN sleeps ELSE sleeps + 1
        /\ pc' \in {"stage", "iteration_returned"} => sleeps' = iteration'
        /\ (pc' \in {"summary", "returned"} /\ raised' \in {"none", "summary"}) =>
              sleeps' = Delays(max_iterations.n)
      ]_vars

\* a finished run of two iterations whose first ended with status 'error':
\* one delay
C24_Witness ==
    /\ pc = "returned"
    /\ max_iterations.n = 2
    /\ Len(SummaryIterations) = 2
    /\ HasStatus(SummaryIterations[1], "error")
    /\ sleeps = 1

\* the outcomes the polling of the monitoring collaborator can report
PollingOutcomes ==
    {MonitorFisExperiment(answers).value["state"] :
        answers \in {a \in FisAnswers : ~MonitorFisExperiment(a).raises}}

C26_NotAppliedMeansUnchanged ==
    [][ (/\ pc = "stage" /\ stage = 4
         /\ ~safety_mode
         /\ pc' = "stage"
         /\ "applied" \in DOMAIN iteration_result'["steps"]["chaos"]
         /\ iteration_result'["steps"]["chaos"]["applied"] = FALSE) =>
            buckets' = buckets
      ]_vars

\* the bucket has no public access block and a public-read ACL
IsPublic(bk, b) == bk[b] = [public_access_block |-> FALSE, acl |-> "public-read"]

\* C27: every call of the cloud collaborator's entry point has
\* make_public = true; with safety mode off, the bucket of every iteration
\* result with applied = true is public, and a bucket that is public stays
\* public in every later step of the run, also after the run has returned.
C27_FaultNeverReverted ==
    [][ /\ \A i \in 1..Len(misconfig_calls') : misconfig_calls'[i].make_public = TRUE
        /\ \A b \in BucketNames : IsPublic(buckets, b) => IsPublic(buckets', b)
        /\ ~safety_mode =>
              \A r \in IterationResults' :
                  (/\ "chaos" \in DOMAIN r["steps"]
                   /\ "applied" \in DOMAIN r["steps"]["chaos"]
                   /\ r["steps"]["chaos"]["applied"] = TRUE) =>
                      IsPublic(buckets', r["steps"]["chaos"]["bucket"])
      ]_vars

\* a returned run of two iterations whose first applied the fault: the
\* bucket is still public
C27_Witness ==
    /\ ~safety_mode
    /\ pc = "returned"
    /\ Len(SummaryIterations) = 2
    /\ "chaos" \in DOMAIN SummaryIterations[1]["steps"]
    /\ "applied" \in DOMAIN SummaryIterations[1]["steps"]["chaos"]
    /\ SummaryIterations[1]["steps"]["chaos"]["applied"] = TRUE
    /\ IsPublic(buckets, SummaryIterations[1]["steps"]["chaos"]["bucket"])
    /\ Len(misconfig_calls) = 2

\* the string is 'true' in some mix of upper and lower case
IsTrueIgnoringCase(chars) ==
    /\ Len(chars) = 4
    /\ chars[1] \in {"t", "T"}
    /\ chars[2] \in {"r", "R"}
    /\ chars[3] \in {"u", "U"}
    /\ chars[4] \in {"e", "E"}

\* C28: the safety mode of a configuration built by load_config is true
\* exactly when CHAOSSEC_SAFETY_MODE is unset or is 'true' in any case, and
\* false for every other value; no step of the orchestrator changes the
\* flag, and the summary of a run and get_summary report that value.
C28_SafetyModeFromEnvironment ==
    [][ /\ safety_mode = (env_safety_mode = Null \/ IsTrueIgnoringCase(env_safety_mode.v))
        /\ safety_mode' = safety_mode
        /\ env_safety_mode' = env_safety_mode
        /\ "safety_mode" \in DOMAIN loop_results' =>
              loop_results'["safety_mode"] = safety_mode
        /\ pc' # "not_started" => "safety_mode" \in DOMAIN loop_results'
        /\ GetSummary'["safety_mode"] = safety_mode
      ]_vars

\* CHAOSSEC_SAFETY_MODE was ' true ': the run made S3 calls and its summary
\* reports safety mode off
C28_Witness ==
    /\ env_safety_mode = Str(<<" ","t","r","u","e"," ">>)
    /\ pc = "returned"
    /\ ~safety_mode
    /\ loop_results["safety_mode"] = FALSE
    /\ s3_calls # <<>>

\* the static-analysis items among the evidence items
StaticAnalysisItems ==
    {i \in 1..Len(evidence_items) : evidence_items[i]["test_type"] = "static_analysis"}

\* C29: once the Report stage of an iteration has submitted its package,
\* every static-analysis evidence item has result 'pass' exactly when the
\* Scan stage of that iteration found nothing (total_findings = 0) and
\* 'findings_detected' otherwise, and its findings count is total_findings.
C29_EvidenceReflectsScan ==
    (pc = "stage" /\ stage = 8) =>
        LET total_findings == iteration_result["steps"]["scan"]["total_findings"]
        IN  \A i \in StaticAnalysisItems :
                /\ evidence_items[i]["result"] =
                      IF total_findings = 0 THEN "pass" ELSE "findings_detected"
                /\ evidence_items[i]["findings"] = total_findings

\* C30: the analysis of a non-empty history that the reason stage hands to
\* the decision-maker has successful_tests + failed_tests <= total_tests;
\* in safety mode it has successful_tests = 0, failed_tests = 0 and
\* success_rate = 0.0 although every entry of the history has outcome
\* 'success_simulated' and test_passed = true.
C30_SimulatedCountsAsNeither ==
    (pc = "stage" /\ stage > 3 /\ execution_history # <<>>) =>
        LET analysis == last_context["history_analysis"]
        IN  /\ analysis = AnalyzeHistory(execution_history)
            /\ analysis["total_tests"] = Len(execution_history)
            /\ analysis["successful_tests"] + analysis["failed_tests"]
                  <= analysis["total_tests"]
            /\ safety_mode =>
                  /\ analysis["successful_tests"] = 0
                  /\ analysis["failed_tests"] = 0
                  /\ analysis["success_rate"][1] = 0
                  /\ \A i \in 1..Len(execution_history) :
                        /\ execution_history[i]["outcome"] = "success_simulated"
                        /\ execution_history[i]["test_passed"] = TRUE

\* the reason stage of the seventh safety-mode iteration analysed six
\* entries and counted no success
C30_Witness ==
    /\ safety_mode
    /\ pc = "stage"
    /\ stage = 4
    /\ Len(execution_history) = 6
    /\ last_context["history_analysis"]["total_tests"] = 6
    /\ last_context["history_analysis"]["successful_tests"] = 0
    /\ execution_history[6]["test_passed"] = TRUE

====
